---- MODULE Spec2Model ----
(***************************************************************************)
(* SidebarButton.vue: a presentational Vue component.  The template binds  *)
(* a class array, a data-title attribute and a click listener on an <a>    *)
(* element holding one <svgicon> child; the script declares five props.    *)
(*                                                                         *)
(* JavaScript strings are modelled as sequences of one-character strings   *)
(* so that String.prototype.toLowerCase is computed character by           *)
(* character.  A JavaScript value is a record [t, v]: t is the value's     *)
(* type tag and v its characters (empty for undefined and null).           *)
(***************************************************************************)
EXTENDS Naturals, Sequences, FiniteSets

VARIABLES
    pc,          \* "created": props initialised, not rendered; "mounted"
    props,       \* the resolved props of the instance
    dirty,       \* a prop changed since the last render pass (re-render queued)
    vnode,       \* output of the last successful render pass
    renderError, \* the last render pass threw
    warnings,    \* prop validation warnings reported so far
    emitted,     \* events emitted to the parent, oldest first
    clicks,      \* click events dispatched on the <a> element
    firstProps,  \* props read by the first render pass
    firstVNode   \* output of the first render pass

vars == <<pc, props, dirty, vnode, renderError, warnings, emitted, clicks,
          firstProps, firstVNode>>

\* Longest activeView sequence the parent supplies.
MaxLen == 2
\* Number of clicks dispatched in one behaviour.
MaxClicks == 2

---------------------------------------------------------------------------
\* JavaScript values

Str(chars) == [t |-> "string", v |-> chars]
Undefined == [t |-> "undefined", v |-> <<>>]
Null == [t |-> "null", v |-> <<>>]

UpperChars == <<"A","B","C","D","E","F","G","H","I","J","K","L","M",
                "N","O","P","Q","R","S","T","U","V","W","X","Y","Z">>
LowerChars == <<"a","b","c","d","e","f","g","h","i","j","k","l","m",
                "n","o","p","q","r","s","t","u","v","w","x","y","z">>

ToLowerCaseChar(c) ==
    IF \E i \in DOMAIN UpperChars : UpperChars[i] = c
    THEN LowerChars[CHOOSE i \in DOMAIN UpperChars : UpperChars[i] = c]
    ELSE c

\* Faulty variant: the type is used as written.
ToLowerCaseIdentity(s) == s

\* String.prototype.toLowerCase, on a string value.
ToLowerCase(s) == Str([i \in 1..Len(s.v) |-> ToLowerCaseChar(s.v[i])])

\* Array.prototype.includes: a left-to-right scan from index k.
RECURSIVE IncludesFrom(_, _, _)
IncludesFrom(arr, x, k) ==
    IF k > Len(arr) THEN FALSE
    ELSE IF arr[k] = x THEN TRUE
    ELSE IncludesFrom(arr, x, k + 1)

\* Faulty variant: the scan stops one element short.
IncludesOffByOne(arr, x) == \E i \in 1..(Len(arr) - 1) : arr[i] = x

Includes(arr, x) == IncludesFrom(arr, x, 1)

---------------------------------------------------------------------------
\* String literals of the component

sMode == Str(<<"M","o","d","e">>)
sMetrics == Str(<<"M","e","t","r","i","c","s">>)
sRefresh == Str(<<"R","e","f","r","e","s","h">>)
sActive == Str(<<"a","c","t","i","v","e">>)
sEmpty == Str(<<>>)

\* The array literal of the type validator.
ValidTypes == <<sMode, sMetrics, sRefresh>>

\* Values the parent passes
sAnnotate == Str(<<"a","n","n","o","t","a","t","e">>)
sMetricsId == Str(<<"m","e","t","r","i","c","s">>)
sRefreshId == Str(<<"r","e","f","r","e","s","h">>)
sModeLower == Str(<<"m","o","d","e">>)
sMetricsUpper == Str(<<"M","E","T","R","I","C","S">>)
sBogus == Str(<<"B","o","g","u","s">>)
sAnnotateIcon == Str(<<"a","n","n","o","t","a","t","e","-","v","i","e","w">>)
sTooltipText == Str(<<"A","n","n","o","t","a","t","e">>)

Ids == {sAnnotate, sRefreshId}
Icons == {sAnnotateIcon, sRefreshId}
Tooltips == {sTooltipText, sEmpty}
Types == {sMode, sMetrics, sRefresh, sModeLower, sMetricsUpper, sEmpty, sBogus}
ViewIds == {sAnnotate, sMetricsId}

RECURSIVE SeqsUpTo(_, _)
SeqsUpTo(S, n) ==
    IF n = 0 THEN {<<>>}
    ELSE LET shorter == SeqsUpTo(S, n - 1)
         IN shorter \cup {Append(s, x) : s \in {q \in shorter : Len(q) = n - 1}, x \in S}

ActiveViews == SeqsUpTo(ViewIds, MaxLen)

---------------------------------------------------------------------------
\* props declaration: resolution and validation

\* default factory of activeView
ActiveViewDefault == <<>>

\* Faulty variant: the validator compares without regard to case.
TypeValidatorIgnoreCase(value) ==
    Includes(<<ToLowerCase(sMode), ToLowerCase(sMetrics), ToLowerCase(sRefresh)>>,
             ToLowerCase(value))

\* validator of the type prop
TypeValidator(value) == Includes(ValidTypes, value)

RequiredProps == {"tooltip", "id", "icon", "type"}

MissingWarning(name) == [kind |-> "missing-required", prop |-> name]
ValidatorWarning(name) == [kind |-> "validator-failed", prop |-> name]

\* The warnings prop checking reports for the props p: a required prop that
\* is absent is reported as missing and checked no further; the validator
\* runs on a supplied value only.
ValidateProps(p) ==
    {MissingWarning(n) : n \in {m \in RequiredProps : p[m] = Undefined}}
    \cup (IF p.type # Undefined /\ ~TypeValidator(p.type)
          THEN {ValidatorWarning("type")} ELSE {})

\* The instance's props from what the parent passes; activeView falls back
\* to its default when the parent passes none.
ResolveProps(hasActiveView, av, tooltip, id, icon, type) ==
    [activeView |-> IF hasActiveView THEN av ELSE ActiveViewDefault,
     tooltip |-> tooltip, id |-> id, icon |-> icon, type |-> type]

---------------------------------------------------------------------------
\* template

\* No element: nothing rendered yet, or the render pass threw.
EmptyVNode ==
    [tag |-> "", staticClass |-> "", class |-> <<>>,
     attrs |-> [href |-> "", dataTitle |-> Undefined], children |-> <<>>]

\* :class="[type.toLowerCase(), activeView.includes(id) ? 'active' : '']"
ClassBinding(p) ==
    <<ToLowerCase(p.type), IF Includes(p.activeView, p.id) THEN sActive ELSE sEmpty>>

\* Faulty variant: the tooltip is bound in the active state too.
DataTitleAlways(p) == p.tooltip

\* :data-title="!activeView.includes(id) ? tooltip : null"
DataTitleBinding(p) == IF ~Includes(p.activeView, p.id) THEN p.tooltip ELSE Null

\* Faulty variant: the commented-out help indicator is rendered.
ChildrenWithHelp(p) ==
    IF p.type # sRefresh
    THEN <<[tag |-> "svgicon", name |-> Str(<<"c","h","e","c","k","3">>)],
           [tag |-> "svgicon", name |-> p.icon]>>
    ELSE <<[tag |-> "svgicon", name |-> p.icon]>>

\* <svgicon :name="icon"></svgicon>; the help indicator is commented out.
Children(p) == <<[tag |-> "svgicon", name |-> p.icon]>>

\* Faulty variant: a type the validator rejects aborts the render pass.
RenderThrowsOnInvalid(p) == p.type.t # "string" \/ ~TypeValidator(p.type)

\* type.toLowerCase() is a property read on type: a TypeError when type is
\* undefined or null.
RenderThrows(p) == p.type.t # "string"

\* Faulty variant: once clicked, the element stays active.
RenderVNodeSticky(p) ==
    [tag |-> "a", staticClass |-> "sidebar-button",
     class |-> <<ToLowerCase(p.type),
                 IF Includes(p.activeView, p.id) \/ Len(emitted) > 0
                 THEN sActive ELSE sEmpty>>,
     attrs |-> [href |-> "#", dataTitle |-> DataTitleBinding(p)],
     children |-> Children(p)]

RenderVNode(p) ==
    [tag |-> "a", staticClass |-> "sidebar-button", class |-> ClassBinding(p),
     attrs |-> [href |-> "#", dataTitle |-> DataTitleBinding(p)],
     children |-> Children(p)]

\* An attribute bound to null or undefined is left off the element.
AttrPresent(value) == value.t \notin {"null", "undefined"}

\* Faulty variant: nothing is emitted when the button is already active.
OnClickUnlessActive(p, out) ==
    IF Includes(p.activeView, p.id) THEN out
    ELSE Append(out, [event |-> "button-action", payload |-> p.id])

\* @click="$emit('button-action', id)"
OnClick(p, out) == Append(out, [event |-> "button-action", payload |-> p.id])

---------------------------------------------------------------------------
\* Construction: the parent passes every required prop.
Init ==
    /\ \E hasAv \in BOOLEAN, av \in ActiveViews, tooltip \in Tooltips,
          id \in Ids, icon \in Icons, type \in Types :
          props = ResolveProps(hasAv, av, tooltip, id, icon, type)
    /\ pc = "created"
    /\ dirty = TRUE
    /\ vnode = EmptyVNode
    /\ renderError = FALSE
    /\ warnings = ValidateProps(props)
    /\ emitted = <<>>
    /\ clicks = 0
    /\ firstProps = props
    /\ firstVNode = EmptyVNode

\* Construction where the parent may leave out any of the props.
InitMissing ==
    /\ \E hasAv \in BOOLEAN, av \in ActiveViews,
          tooltip \in {sTooltipText, Undefined}, id \in {sAnnotate, Undefined},
          icon \in {sAnnotateIcon, Undefined},
          type \in {sMode, sRefresh, sBogus, Undefined} :
          props = ResolveProps(hasAv, av, tooltip, id, icon, type)
    /\ pc = "created"
    /\ dirty = TRUE
    /\ vnode = EmptyVNode
    /\ renderError = FALSE
    /\ warnings = ValidateProps(props)
    /\ emitted = <<>>
    /\ clicks = 0
    /\ firstProps = props
    /\ firstVNode = EmptyVNode

\* One render pass over the current props.  A pass that throws produces no
\* new output: the previous one is kept.
RenderPass ==
    /\ vnode' = IF RenderThrows(props) THEN vnode ELSE RenderVNode(props)
    /\ renderError' = RenderThrows(props)
    /\ dirty' = FALSE

\* First render of the instance.
Mount ==
    /\ pc = "created"
    /\ pc' = "mounted"
    /\ RenderPass
    /\ firstProps' = props
    /\ firstVNode' = vnode'
    /\ UNCHANGED <<props, warnings, emitted, clicks>>

\* The parent passes a new activeView array (possibly with equal content);
\* props are validated again and a render pass is queued.
ParentUpdate ==
    /\ pc = "mounted"
    /\ \E av \in ActiveViews :
          props' = [props EXCEPT !.activeView = av]
    /\ warnings' = warnings \cup ValidateProps(props')
    /\ dirty' = TRUE
    /\ UNCHANGED <<pc, vnode, renderError, emitted, clicks, firstProps, firstVNode>>

\* The queued render pass runs.
Render ==
    /\ pc = "mounted"
    /\ dirty
    /\ RenderPass
    /\ UNCHANGED <<pc, props, warnings, emitted, clicks, firstProps, firstVNode>>

\* Faulty variant: the click listener also pushes id onto activeView.
ClickPushesId ==
    /\ pc = "mounted"
    /\ vnode.tag = "a"
    /\ clicks < MaxClicks
    /\ clicks' = clicks + 1
    /\ emitted' = Append(emitted, [event |-> "button-action", payload |-> props.id])
    /\ props' = [props EXCEPT !.activeView = Append(@, props.id)]
    /\ UNCHANGED <<pc, dirty, vnode, renderError, warnings, firstProps, firstVNode>>

\* A click on the rendered <a> element runs its click listener.
Click ==
    /\ pc = "mounted"
    /\ vnode.tag = "a"
    /\ clicks < MaxClicks
    /\ clicks' = clicks + 1
    /\ emitted' = OnClick(props, emitted)
    /\ UNCHANGED <<pc, props, dirty, vnode, renderError, warnings, firstProps, firstVNode>>

Next == Mount \/ ParentUpdate \/ Render \/ Click

Spec == Init /\ [][Next]_vars

SpecMissing == InitMissing /\ [][Next]_vars

---------------------------------------------------------------------------
\* Properties

\* Membership, stated without the scan.
Contains(seq, x) == \E i \in DOMAIN seq : seq[i] = x

sBogusLower == Str(<<"b","o","g","u","s">>)

\* The element is rendered and shows the current props.
Rendered == pc = "mounted" /\ ~dirty /\ ~renderError

\* C1: the rendered class list holds "active" iff activeView contains id
\* (empty activeView and repeated ids included); when it does not, the
\* second class entry is the empty string.
C1_ActiveIffContains ==
    Rendered =>
        /\ Contains(vnode.class, Str(<<"a","c","t","i","v","e">>))
              <=> Contains(props.activeView, props.id)
        /\ ~Contains(props.activeView, props.id) => vnode.class[2] = Str(<<>>)

C1_Witness ==
    /\ Rendered
    /\ props.id = sAnnotate
    /\ props.activeView = <<sAnnotate, sAnnotate>>
    /\ vnode.class[2] = sActive

\* C2: every click emits exactly one "button-action" event carrying id,
\* active or not and for every type: after n clicks, n such events.
C2_ClickEmitsId ==
    /\ Len(emitted) = clicks
    /\ \A i \in DOMAIN emitted :
          emitted[i] = [event |-> "button-action", payload |-> props.id]

C2_Witness ==
    /\ clicks = 2
    /\ Len(emitted) = 2
    /\ Rendered
    /\ Contains(props.activeView, props.id)
    /\ props.type = sRefresh

\* C3: data-title is present, with the tooltip prop as its value, iff
\* activeView does not contain id; otherwise it is null (absent).
C3_TooltipIffInactive ==
    Rendered =>
        IF Contains(props.activeView, props.id)
        THEN vnode.attrs.dataTitle = Null
        ELSE /\ vnode.attrs.dataTitle = props.tooltip
             /\ vnode.attrs.dataTitle.t = "string"

C3_Witness ==
    /\ Rendered
    /\ props.id = sAnnotate
    /\ props.activeView = <<sMetricsId>>
    /\ vnode.attrs.dataTitle = sTooltipText

\* C4: for type Mode, Metrics, Refresh the type entry of the class list is
\* "mode", "metrics", "refresh", whatever the other props are.
C4_LowercasedType ==
    Rendered =>
        /\ props.type = Str(<<"M","o","d","e">>)
              => vnode.class[1] = Str(<<"m","o","d","e">>)
        /\ props.type = Str(<<"M","e","t","r","i","c","s">>)
              => vnode.class[1] = Str(<<"m","e","t","r","i","c","s">>)
        /\ props.type = Str(<<"R","e","f","r","e","s","h">>)
              => vnode.class[1] = Str(<<"r","e","f","r","e","s","h">>)

C4_Witness ==
    /\ Rendered
    /\ props.type = sMetrics
    /\ vnode.class[1] = sMetricsId
    /\ Contains(props.activeView, props.id)

\* C5: only the parent changes activeView: a click step changes no prop and
\* no rendered output, and a render pass changes no prop.
C5_PropsReadOnly ==
    [][/\ clicks' # clicks => (props' = props /\ vnode' = vnode)
       /\ dirty' = FALSE => props' = props]_vars

C5_Witness ==
    /\ clicks = 2
    /\ Rendered
    /\ props.activeView = <<sMetricsId, sAnnotate>>
    /\ firstProps.activeView = <<>>

\* C6: with type "Bogus" a validation warning is reported, no render pass
\* aborts, the type class entry is "bogus", and the active class, the
\* tooltip and the click event are as for a valid type.
C6_InvalidTypeRenders ==
    props.type = Str(<<"B","o","g","u","s">>) =>
        /\ [kind |-> "validator-failed", prop |-> "type"] \in warnings
        /\ ~renderError
        /\ pc = "mounted" => vnode.tag = "a"
        /\ Rendered =>
              /\ vnode.class[1] = Str(<<"b","o","g","u","s">>)
              /\ vnode.class[2] = IF Contains(props.activeView, props.id)
                                  THEN sActive ELSE sEmpty
              /\ vnode.attrs.dataTitle = IF Contains(props.activeView, props.id)
                                         THEN Null ELSE props.tooltip
        /\ Len(emitted) = clicks
        /\ \A i \in DOMAIN emitted :
              emitted[i] = [event |-> "button-action", payload |-> props.id]

C6_Witness ==
    /\ props.type = sBogus
    /\ Rendered
    /\ clicks = 1
    /\ vnode.class = <<sBogusLower, sActive>>

\* C7: a required prop left out is reported as a validation warning and no
\* render pass throws.
C7_MissingPropWarnsNoThrow ==
    \A n \in {"id", "icon", "tooltip", "type"} :
        props[n] = Undefined =>
            /\ [kind |-> "missing-required", prop |-> n] \in warnings
            /\ ~renderError

\* C8: the type validator accepts exactly "Mode", "Metrics" and "Refresh":
\* a warning is reported for every other string ("mode", "METRICS", "").
C8_ValidatorExact ==
    [kind |-> "validator-failed", prop |-> "type"] \in warnings
        <=> props.type \notin {Str(<<"M","o","d","e">>),
                               Str(<<"M","e","t","r","i","c","s">>),
                               Str(<<"R","e","f","r","e","s","h">>)}

C8_Witness ==
    /\ props.type = sModeLower
    /\ pc = "mounted"
    /\ [kind |-> "validator-failed", prop |-> "type"] \in warnings

\* C9: the rendered element has exactly one child, the icon glyph named by
\* the icon prop, active or not and for every type.
C9_OnlyIconChild ==
    Rendered => vnode.children = <<[tag |-> "svgicon", name |-> props.icon]>>

C9_Witness ==
    /\ Rendered
    /\ props.type = sMode
    /\ Contains(props.activeView, props.id)
    /\ vnode.children[1].name = sAnnotateIcon

\* C10: the rendered output depends on the current props only: whenever the
\* props equal those of the first render the output equals the first
\* output, whatever renders and clicks came between, and a step that
\* leaves the props of an up-to-date element unchanged (a click) leaves the
\* output unchanged.
C10_SameAsFirst == (Rendered /\ props = firstProps) => vnode = firstVNode

C10_Stateless ==
    /\ []C10_SameAsFirst
    /\ [][(Rendered /\ props' = props) => vnode' = vnode]_vars

C10_Witness ==
    /\ Rendered
    /\ clicks = 2
    /\ props = firstProps
    /\ Contains(props.activeView, props.id)
    /\ vnode = firstVNode
    /\ vnode.class[2] = sActive

====
